---- MODULE Spec2Model ----
(***************************************************************************)
(* volume_bot: the pair scanner (src/random/util.py, JupiterMonitor) and   *)
(* the messaging client (src/client.py, TelegramClient).                   *)
(*                                                                         *)
(* Both components are sequential.  The scanner is modelled as one run of  *)
(* scan_new_pairs, the HTTP responses being inputs chosen when a request   *)
(* is made.  The client is modelled as a sequence of calls of its public   *)
(* methods, broadcast_message one recipient at a time.                     *)
(***************************************************************************)
EXTENDS Integers, Sequences, FiniteSets

\* ------------------------------------------------------------------ bounds
MaxPairs == 2        \* longest pairs list the pairs endpoint returns
MaxTokens == 1       \* longest token list the token-list endpoint returns
MaxChats == 3        \* longest chat id list given to broadcast_message

\* ------------------------------------------------------- values (scanner)
\* The threshold main() scans with.
VOLUME_THRESHOLD == 100
\* The thresholds a monitor is built with: the one of main(), and 0, under
\* which no number is too small.
Thresholds == {0, VOLUME_THRESHOLD}
\* The numbers a pair's volume takes: with the thresholds above they give a
\* volume under, at and over the threshold, which is all line 71 looks at.
VolumeNumbers == {0, VOLUME_THRESHOLD}

\* A Python float: a number or nan.
Num(n) == [nan |-> FALSE, val |-> n]
NaN == [nan |-> TRUE, val |-> 0]

\* Python's a < b on floats: false as soon as one side is nan.
Lt(a, b) == ~a.nan /\ ~b.nan /\ a.val < b.val

\* A field of a JSON object as the code reads it with .get(key, 0): the key is
\* missing, or holds a number, or holds text float() reads as nan ("nan"), or
\* holds something float() rejects ("abc", null).
Missing == [kind |-> "missing", val |-> 0]
Malformed == [kind |-> "malformed", val |-> 0]
NanText == [kind |-> "nan", val |-> 0]
Number(n) == [kind |-> "num", val |-> n]

VolumeFields == {Missing, Malformed, NanText} \cup {Number(n) : n \in VolumeNumbers}
PriceFields == {Number(1), Malformed}

\* The base-token addresses; "" stands for an absent or empty address.
Addresses == {"A"}
NoAddress == ""

Pairs == [volume24h : VolumeFields, address : Addresses \cup {NoAddress},
          priceUsd : PriceFields]

\* float(x) as the code applies it to a field read with .get(key, 0): it
\* raises on text that is no number, reads "nan" as nan, and a missing key as
\* the default 0.
float_never_raises(f) == FALSE
float_raises(f) == f.kind = "malformed"
float(f) == IF f.kind = "nan" THEN NaN
            ELSE IF f.kind = "missing" THEN Num(0) ELSE Num(f.val)

\* The body of a detail response: no data ({}), or a record whose market_cap
\* the progress lines can format ("number") or cannot ("text").
EmptyInfo == [kind |-> "empty", market_cap |-> "none"]
Info(cap) == [kind |-> "data", market_cap |-> cap]
None == [kind |-> "none", market_cap |-> "none"]
InfoBodies == {EmptyInfo, Info("number"), Info("text")}

\* HTTP responses.  status "fail" is a status other than 200 or an exception
\* of the request (a transport error, a body that is no JSON).
EmptyList == [enumerable |-> TRUE, items |-> <<>>]
RECURSIVE SeqsUpTo(_, _)
SeqsUpTo(S, n) == IF n = 0 THEN {<<>>}
                  ELSE LET shorter == SeqsUpTo(S, n - 1)
                       IN shorter \cup {Append(q, x) : q \in shorter, x \in S}
\* The pairs endpoint answers with a JSON list of pairs, or with JSON that
\* cannot be enumerated (null, a number).
PairsBodies == {[enumerable |-> TRUE, items |-> q] : q \in SeqsUpTo(Pairs, MaxPairs)}
                 \cup {[enumerable |-> FALSE, items |-> <<>>]}
PairsResponses == [status : {"ok"}, body : PairsBodies]
                    \cup {[status |-> "fail", body |-> EmptyList]}
\* A token-list entry has an 'address' key or lacks it.
TokenEntries == [has_address : {TRUE}, address : Addresses]
                  \cup {[has_address |-> FALSE, address |-> NoAddress]}
TokenResponses == [status : {"ok"}, data : SeqsUpTo(TokenEntries, MaxTokens)]
                    \cup {[status |-> "fail", data |-> <<>>]}
DetailResponses == [status : {"ok"}, body : InfoBodies]
                     \cup {[status |-> "fail", body |-> None]}

VARIABLES
  volume_threshold,       \* self.volume_threshold
  pc,                     \* where scan_new_pairs stands
  pairs_data,             \* the local pairs_data
  tokens,                 \* the local tokens: address -> token-list entry
  idx,                    \* position of the for loop in pairs_data (1-based)
  new_high_volume_pairs,  \* the local output list
  requests,               \* the HTTP requests made so far, with their answers
  printed,                \* the lines scan_new_pairs itself printed
  ret                     \* how the call ended and what it returned

scanVars == <<volume_threshold, pc, pairs_data, tokens, idx,
              new_high_volume_pairs, requests, printed, ret>>

VARIABLES
  json_error_is_request_exception,
                 \* whether response.json() raises a RequestException (requests
                 \* 2.27 and later) or a plain ValueError (earlier versions)
  c_pc,          \* "idle", or "broadcast" inside broadcast_message's loop
  op,            \* the method called last
  chat_ids,      \* broadcast_message's argument
  c_i,           \* position of broadcast_message's loop in chat_ids (1-based)
  results,       \* broadcast_message's local results
  sent,          \* the requests of the current call, with the API's answers
  log,           \* the logger.error entries of the current call
  c_ret          \* how the last call ended: returned a value or raised

clientVars == <<json_error_is_request_exception, c_pc, op, chat_ids, c_i,
                results, sent, log, c_ret>>

vars == <<scanVars, clientVars>>

\* A request as the endpoint saw it, with the answer it gave: ok (status 200),
\* body (a detail record) and data (a token list).  pair is the position in
\* pairs_data of the pair a detail request is made for.
Request(endpoint, address, pair, ok, body, data) ==
  [endpoint |-> endpoint, address |-> address, pair |-> pair, ok |-> ok,
   body |-> body, data |-> data]
Line(text, pair) == [line |-> text, pair |-> pair]
Running == [state |-> "running", value |-> <<>>]
Returned(v) == [state |-> "returned", value |-> v]
Raised == [state |-> "raised", value |-> <<>>]

ScanInit ==
  /\ volume_threshold \in Thresholds
  /\ pc = "start"
  /\ pairs_data = EmptyList
  /\ tokens = <<>>
  /\ idx = 1
  /\ new_high_volume_pairs = <<>>
  /\ requests = <<>>
  /\ printed = <<>>
  /\ ret = Running

\* get_pairs_data: the body on status 200, [] otherwise.
get_pairs_data(resp) == IF resp.status = "ok" THEN resp.body ELSE EmptyList
\* get_token_list: the 'data' list on status 200, [] otherwise.
get_token_list(resp) == IF resp.status = "ok" THEN resp.data ELSE <<>>
\* get_token_info: the body on status 200, None otherwise.
get_token_info(resp) == IF resp.status = "ok" THEN resp.body ELSE None

\* {token['address']: token for token in ...}: KeyError on an entry without
\* the key; a later entry replaces an earlier one with the same address.
TokensRaises(list) == \E k \in 1..Len(list) : ~list[k].has_address
LastIndex(list, a) == CHOOSE k \in 1..Len(list) :
                        /\ list[k].address = a
                        /\ \A j \in (k + 1)..Len(list) : list[j].address # a
TokensDict(list) ==
  [a \in {list[k].address : k \in 1..Len(list)} |-> list[LastIndex(list, a)]]

OuterExcept_reraises == Raised
\* The outer handler of scan_new_pairs (except Exception: ... return []).
OuterExcept == Returned(<<>>)

scan_aborts_without_tokens(token_list) ==
  token_list = <<>> \/ TokensRaises(token_list) \/ ~pairs_data.enumerable
\* Lines 60-65 outside the per-pair try: the lookup raises KeyError, or the for
\* statement raises TypeError on pairs_data that cannot be enumerated.
scan_aborts(token_list) == TokensRaises(token_list) \/ ~pairs_data.enumerable

\* Line 53 and line 57: the banner, then the pairs request.
FetchPairs ==
  /\ pc = "start"
  /\ \E resp \in PairsResponses :
       /\ pairs_data' = get_pairs_data(resp)
       /\ requests' = Append(requests, Request("pairs", NoAddress, 0, resp.status = "ok", None, <<>>))
  /\ printed' = Append(printed, Line("scanning", 0))
  /\ pc' = "tokens"
  /\ UNCHANGED <<volume_threshold, tokens, idx, new_high_volume_pairs, ret, clientVars>>

\* Line 60: the token-list request and the lookup built from it; then line 63
\* and the start of the for loop of line 65, which raises when pairs_data
\* cannot be enumerated.  Either exception lands in the outer handler.
FetchTokens ==
  /\ pc = "tokens"
  /\ \E resp \in TokenResponses :
       /\ requests' = Append(requests, Request("tokens", NoAddress, 0, resp.status = "ok", None, resp.data))
       /\ IF scan_aborts(get_token_list(resp))
          THEN /\ tokens' = tokens
               /\ printed' = Append(printed, Line("error_scanning", 0))
               /\ ret' = OuterExcept
               /\ pc' = "done"
          ELSE /\ tokens' = TokensDict(get_token_list(resp))
               /\ printed' = printed
               /\ ret' = ret
               /\ pc' = "loop"
  /\ UNCHANGED <<volume_threshold, pairs_data, idx, new_high_volume_pairs, clientVars>>

below_or_equal_threshold(volume_24h) ==
  ~volume_24h.nan /\ volume_24h.val <= volume_threshold
\* Line 71: volume_24h < self.volume_threshold.
below_threshold(volume_24h) == Lt(volume_24h, Num(volume_threshold))
no_address_unchecked(token_address) == FALSE
\* Lines 76 and 80: `not x` of an address and of a detail record.
no_address(token_address) == token_address = NoAddress
falsy_only_none(token_info) == token_info.kind = "none"
falsy(token_info) == token_info.kind \in {"none", "empty"}
\* Lines 84-95: the record built for a pair.  The field pair is not in the
\* code: it is the position in pairs_data of the pair the record is built from.
pair_info(pair, i, token_info) ==
  [pair |-> i,
   address |-> pair.address,
   volume_24h |-> float(pair.volume24h),
   price_usd |-> float(pair.priceUsd),
   market_cap |-> token_info.market_cap]
\* Lines 100-110 raise when a field cannot be formatted (market_cap with :,.2f).
print_raises(info) == info.market_cap # "number"

InLoop == pc = "loop" /\ idx <= Len(pairs_data.items)
CurrentPair == pairs_data.items[idx]

\* Line 68 raises: the handler of line 112 prints and continues.
VolumeError ==
  /\ InLoop
  /\ float_raises(CurrentPair.volume24h)
  /\ printed' = Append(printed, Line("error_pair", idx))
  /\ idx' = idx + 1
  /\ UNCHANGED <<volume_threshold, pc, pairs_data, tokens, new_high_volume_pairs,
                 requests, ret, clientVars>>

\* Lines 71-72: continue.
BelowThreshold ==
  /\ InLoop
  /\ ~float_raises(CurrentPair.volume24h)
  /\ below_threshold(float(CurrentPair.volume24h))
  /\ idx' = idx + 1
  /\ UNCHANGED <<volume_threshold, pc, pairs_data, tokens, new_high_volume_pairs,
                 requests, printed, ret, clientVars>>

\* Lines 75-77: continue.
AddressMissing ==
  /\ InLoop
  /\ ~float_raises(CurrentPair.volume24h)
  /\ ~below_threshold(float(CurrentPair.volume24h))
  /\ no_address(CurrentPair.address)
  /\ idx' = idx + 1
  /\ UNCHANGED <<volume_threshold, pc, pairs_data, tokens, new_high_volume_pairs,
                 requests, printed, ret, clientVars>>

\* Lines 79-114: the detail request and what follows it in the iteration.
Enrich ==
  /\ InLoop
  /\ ~float_raises(CurrentPair.volume24h)
  /\ ~below_threshold(float(CurrentPair.volume24h))
  /\ ~no_address(CurrentPair.address)
  /\ \E resp \in DetailResponses :
       LET token_info == get_token_info(resp)
           info == pair_info(CurrentPair, idx, token_info)
       IN /\ requests' = Append(requests,
               Request("detail", CurrentPair.address, idx, resp.status = "ok", resp.body, <<>>))
          /\ IF falsy(token_info)
             THEN UNCHANGED <<new_high_volume_pairs, printed>>
             ELSE IF float_raises(CurrentPair.priceUsd)
             THEN /\ printed' = Append(printed, Line("error_pair", idx))
                  /\ UNCHANGED new_high_volume_pairs
             ELSE /\ new_high_volume_pairs' = Append(new_high_volume_pairs, info)
                  /\ printed' = IF print_raises(info)
                                THEN printed \o <<Line("found", idx), Line("error_pair", idx)>>
                                ELSE Append(printed, Line("found", idx))
  /\ idx' = idx + 1
  /\ UNCHANGED <<volume_threshold, pc, pairs_data, tokens, ret, clientVars>>

\* Line 116.
ReturnPairs ==
  /\ pc = "loop"
  /\ idx > Len(pairs_data.items)
  /\ ret' = Returned(new_high_volume_pairs)
  /\ pc' = "done"
  /\ UNCHANGED <<volume_threshold, pairs_data, tokens, idx, new_high_volume_pairs,
                 requests, printed, clientVars>>

ScanNext ==
  \/ FetchPairs
  \/ FetchTokens
  \/ VolumeError
  \/ BelowThreshold
  \/ AddressMissing
  \/ Enrich
  \/ ReturnPairs


\* ------------------------------------------------------ messaging client
\* How the API answers one HTTP request: a JSON body of the expected shape
\* ("ok"), a transport error raised by session.post / session.get
\* ("network"), a status raise_for_status rejects ("http_error"), a body that
\* is no JSON ("not_json"), or JSON without the keys get_updates reads
\* ("no_result").
Bodies == {"r1", "r2"}
Incomplete == "incomplete"
Answers == [kind : {"ok"}, body : Bodies]
             \cup {[kind |-> k, body |-> "none"] : k \in {"network", "http_error", "not_json"}}
             \cup {[kind |-> "no_result", body |-> Incomplete]}
ChatIds == {1, 2}

Exc(type, msg) == [type |-> type, msg |-> msg]
NoExc == Exc("none", "")
\* str(e)
str(e) == e.msg

Outcome(state, value, exc) == [state |-> state, value |-> value, exc |-> exc]
LogEntry(where, chat) == [where |-> where, chat |-> chat]
Sent(method, chat, answer) == [method |-> method, chat |-> chat, answer |-> answer]

ClientInit ==
  /\ json_error_is_request_exception \in BOOLEAN
  /\ c_pc = "idle"
  /\ op = "none"
  /\ chat_ids = <<>>
  /\ c_i = 1
  /\ results = <<>>
  /\ sent = <<>>
  /\ log = <<>>
  /\ c_ret = Outcome("none", "none", NoExc)

\* What the statements inside the try of _make_request and of get_updates
\* raise for an answer: session.post / raise_for_status / response.json().
RequestError(answer) ==
  CASE answer.kind = "network" -> Exc("RequestException", "connection error")
    [] answer.kind = "http_error" -> Exc("RequestException", "http error")
    [] answer.kind = "not_json" ->
         IF json_error_is_request_exception
         THEN Exc("RequestException", "invalid json")
         ELSE Exc("ValueError", "invalid json")
    [] OTHER -> NoExc

Logged_any_exception(e) == e # NoExc
\* except requests.RequestException: log and re-raise; anything else passes
\* through the handler untouched.
Logged(e) == e.type = "RequestException"

\* _make_request: [exc, value, log] of one request.
make_request(method, chat, answer) ==
  LET e == RequestError(answer)
  IN [exc |-> e,
      value |-> IF e = NoExc THEN answer.body ELSE "none",
      log |-> IF Logged(e) THEN <<LogEntry("_make_request", chat)>> ELSE <<>>]

\* get_updates: as _make_request, and response.json()['result'] raises
\* KeyError on JSON without the key.
get_updates(answer) ==
  LET e == IF answer.kind = "no_result" THEN Exc("KeyError", "'result'")
           ELSE RequestError(answer)
  IN [exc |-> e,
      value |-> IF e = NoExc THEN answer.body ELSE "none",
      log |-> IF Logged(e) THEN <<LogEntry("get_updates", 0)>> ELSE <<>>]

\* send_message, send_message_with_buttons: _make_request('sendMessage', ...);
\* send_token_alert: send_message_with_buttons.
send_message(chat, answer) == make_request("sendMessage", chat, answer)
send_message_with_buttons(chat, answer) == make_request("sendMessage", chat, answer)
send_token_alert(chat, answer) == send_message_with_buttons(chat, answer)

\* A call of a method other than broadcast_message, from its caller's side.
Finish(name, method, chat, answer, r) ==
  /\ c_pc = "idle"
  /\ op' = name
  /\ sent' = <<Sent(method, chat, answer)>>
  /\ log' = r.log
  /\ c_ret' = IF r.exc = NoExc THEN Outcome("returned", r.value, NoExc)
              ELSE Outcome("raised", "none", r.exc)
  /\ chat_ids' = <<>>
  /\ c_i' = 1
  /\ results' = <<>>
  /\ UNCHANGED <<json_error_is_request_exception, c_pc, scanVars>>

GetUpdates ==
  \E answer \in Answers :
    Finish("get_updates", "getUpdates", 0, answer, get_updates(answer))
SendMessage ==
  \E chat \in ChatIds, answer \in Answers :
    Finish("send_message", "sendMessage", chat, answer, send_message(chat, answer))
SendMessageWithButtons ==
  \E chat \in ChatIds, answer \in Answers :
    Finish("send_message_with_buttons", "sendMessage", chat, answer,
           send_message_with_buttons(chat, answer))
SendTokenAlert ==
  \E chat \in ChatIds, answer \in Answers :
    Finish("send_token_alert", "sendMessage", chat, answer,
           send_token_alert(chat, answer))

\* broadcast_message, line 139.
BroadcastStart ==
  /\ c_pc = "idle"
  /\ \E ids \in SeqsUpTo(ChatIds, MaxChats) : chat_ids' = ids
  /\ c_pc' = "broadcast"
  /\ op' = "broadcast_message"
  /\ c_i' = 1
  /\ results' = <<>>
  /\ sent' = <<>>
  /\ log' = <<>>
  /\ c_ret' = Outcome("running", "none", NoExc)
  /\ UNCHANGED <<json_error_is_request_exception, scanVars>>

\* The entry broadcast_message appends for one recipient (lines 143-154).
Success(chat, value) == [chat_id |-> chat, success |-> TRUE, result |-> value]
Failure(chat, e) == [chat_id |-> chat, success |-> FALSE, error |-> str(e)]
broadcast_entry_success_only(chat, r) == Success(chat, r.value)
broadcast_entry(chat, r) ==
  IF r.exc = NoExc THEN Success(chat, r.value) ELSE Failure(chat, r.exc)
\* except Exception: every exception of the send is logged by the loop.
broadcast_log(chat, r) ==
  IF r.exc = NoExc THEN r.log ELSE r.log \o <<LogEntry("broadcast_message", chat)>>

\* One iteration of the loop of lines 140-154.
BroadcastSend ==
  /\ c_pc = "broadcast"
  /\ c_i <= Len(chat_ids)
  /\ \E answer \in Answers :
       LET r == send_message(chat_ids[c_i], answer)
       IN /\ sent' = Append(sent, Sent("sendMessage", chat_ids[c_i], answer))
          /\ results' = Append(results, broadcast_entry(chat_ids[c_i], r))
          /\ log' = log \o broadcast_log(chat_ids[c_i], r)
  /\ c_i' = c_i + 1
  /\ UNCHANGED <<json_error_is_request_exception, c_pc, op, chat_ids, c_ret, scanVars>>

\* Line 155.
BroadcastReturn ==
  /\ c_pc = "broadcast"
  /\ c_i > Len(chat_ids)
  /\ c_ret' = Outcome("returned", results, NoExc)
  /\ c_pc' = "idle"
  /\ UNCHANGED <<json_error_is_request_exception, op, chat_ids, c_i, results, sent, log,
                 scanVars>>

ClientNext ==
  \/ GetUpdates
  \/ SendMessage
  \/ SendMessageWithButtons
  \/ SendTokenAlert
  \/ BroadcastStart
  \/ BroadcastSend
  \/ BroadcastReturn

\* The two components share nothing: each specification runs one of them and
\* leaves the other in one initial state.
InitClient == ClientInit /\ ScanInit /\ volume_threshold = 0
InitScan == ScanInit /\ ClientInit /\ json_error_is_request_exception
SpecClient == InitClient /\ [][ClientNext]_vars
SpecScan == InitScan /\ [][ScanNext]_vars

\* ------------------------------------------- properties of the scanner
\* What holds of a pair, read off the input alone.
Input(i) == pairs_data.items[i]
Handled == IF pc \in {"loop", "done"} THEN 1..(idx - 1) ELSE {}
VolumeParses(i) == Input(i).volume24h.kind # "malformed"
VolumeNumber(i) == Input(i).volume24h.kind \in {"num", "missing"}
VolumeValue(i) == IF Input(i).volume24h.kind = "num" THEN Input(i).volume24h.val ELSE 0
VolumeAtLeastThreshold(i) == VolumeNumber(i) /\ VolumeValue(i) >= volume_threshold
VolumeUnderThreshold(i) == VolumeNumber(i) /\ VolumeValue(i) < volume_threshold
HasAddress(i) == Input(i).address # NoAddress
DetailRequests(i) ==
  {k \in 1..Len(requests) : requests[k].endpoint = "detail" /\ requests[k].pair = i}
RequestsTo(endpoint) == {k \in 1..Len(requests) : requests[k].endpoint = endpoint}
\* The detail fetch made for pair i failed or brought no data.
DetailFailed(i) ==
  \E k \in DetailRequests(i) : ~requests[k].ok \/ requests[k].body.kind # "data"
DetailData(i) ==
  \E k \in DetailRequests(i) : requests[k].ok /\ requests[k].body.kind = "data"
RecordsOf(list, i) == {k \in 1..Len(list) : list[k].pair = i}
InOutput(i) == RecordsOf(new_high_volume_pairs, i) # {} \/ RecordsOf(ret.value, i) # {}
Done == pc = "done"

\* C1: every record of the sequence scan_new_pairs returns has
\* volume_24h >= volume_threshold.
C1_EveryRecordMeetsThreshold ==
  Done =>
    \A k \in 1..Len(ret.value) :
      /\ ~ret.value[k].volume_24h.nan
      /\ ret.value[k].volume_24h.val >= volume_threshold

\* A pair over the threshold that cannot be resolved.
C2Case(i) == VolumeAtLeastThreshold(i) /\ (~HasAddress(i) \/ DetailFailed(i))
\* C2: a pair with volume >= threshold whose address is absent, or whose detail
\* fetch failed or brought no data, is not in the output; the call does not
\* raise; and the loop goes on to the end of the list.
C2_UnresolvedPairExcluded ==
  \A i \in Handled :
    C2Case(i) =>
      /\ ~InOutput(i)
      /\ ret.state # "raised"
      /\ Done => idx = Len(pairs_data.items) + 1
C2_Witness ==
  /\ Done
  /\ Len(pairs_data.items) = 2
  /\ HasAddress(1) /\ VolumeAtLeastThreshold(1) /\ DetailFailed(1)
  /\ RecordsOf(ret.value, 2) # {}

\* q lists the members of the set S of numbers in increasing order, each once.
IsEnumerationOf(q, S) ==
  /\ Len(q) = Cardinality(S)
  /\ \A k \in 1..Len(q) : q[k] \in S
  /\ \A j, k \in 1..Len(q) : j < k => q[j] < q[k]
PairIndices(list) == [k \in 1..Len(list) |-> list[k].pair]
AllPairs == 1..Len(pairs_data.items)
PriceParses(i) == Input(i).priceUsd.kind # "malformed"
\* The token list held an entry without 'address', or the pairs payload cannot
\* be enumerated: the two exceptions raised outside the per-pair try.
TokenListBroken ==
  \E k \in RequestsTo("tokens") :
    requests[k].ok /\ \E j \in 1..Len(requests[k].data) : ~requests[k].data[j].has_address
ScanAborted == TokenListBroken \/ ~pairs_data.enumerable
PassesFilter(i) == VolumeParses(i) /\ ~VolumeUnderThreshold(i)
\* A pair the scanner has to ask the detail endpoint about, and a pair it has
\* to report once the endpoint has answered with data.
Candidate(i) == PassesFilter(i) /\ HasAddress(i)
Eligible(i) == Candidate(i) /\ DetailData(i) /\ PriceParses(i)

\* C3 (as claimed): with every detail fetch succeeding, the call returns one
\* record per pair with volume >= threshold, in input order.
C3_OneRecordPerQualifyingPair ==
  (Done /\ \A k \in RequestsTo("detail") : requests[k].ok /\ requests[k].body.kind = "data")
    => IsEnumerationOf(PairIndices(ret.value), {i \in AllPairs : VolumeAtLeastThreshold(i)})
\* C3 (amended): a scan that gets to its loop returns one record per pair that
\* passes the volume filter and has an address (each of them is put to the
\* detail endpoint), got detail data and has a price that parses, in input
\* order, each record carrying its pair's address and volume; a scan that
\* aborts returns nothing.
C3_OneRecordPerEligiblePair ==
  Done =>
    IF ScanAborted THEN ret.value = <<>>
    ELSE /\ \A i \in AllPairs : Candidate(i) => DetailRequests(i) # {}
         /\ IsEnumerationOf(PairIndices(ret.value), {i \in AllPairs : Eligible(i)})
         /\ \A k \in 1..Len(ret.value) :
              /\ ret.value[k].address = Input(ret.value[k].pair).address
              /\ ret.value[k].volume_24h =
                   IF VolumeNumber(ret.value[k].pair)
                   THEN Num(VolumeValue(ret.value[k].pair)) ELSE NaN
C3_Witness ==
  /\ Done
  /\ Len(pairs_data.items) = 2
  /\ VolumeAtLeastThreshold(1) /\ ~HasAddress(1)
  /\ VolumeAtLeastThreshold(2) /\ Eligible(2)
  /\ PairIndices(ret.value) = <<2>>

PairsFetchFailed == \E k \in RequestsTo("pairs") : ~requests[k].ok
TokensFetchFailed == \E k \in RequestsTo("tokens") : ~requests[k].ok
\* C5 (as claimed): when the pairs fetch or the token-list fetch fails, the
\* call returns an empty list.
C5_FailedFetchGivesEmptyResult ==
  (Done /\ (PairsFetchFailed \/ TokensFetchFailed))
    => ret.state = "returned" /\ ret.value = <<>>
\* C5 (amended): the call never raises; a failed pairs fetch gives an empty
\* result without any detail request; a failed token-list fetch alone leaves
\* the lookup empty and the scan goes on, returning the eligible pairs.
C5_FailedFetchNeverRaises ==
  Done =>
    /\ ret.state = "returned"
    /\ PairsFetchFailed => ret.value = <<>> /\ RequestsTo("detail") = {}
    /\ (TokensFetchFailed /\ ~PairsFetchFailed /\ pairs_data.enumerable) =>
         /\ DOMAIN tokens = {}
         /\ \A i \in AllPairs :
              /\ Candidate(i) => DetailRequests(i) # {}
              /\ Eligible(i) <=> RecordsOf(ret.value, i) # {}
C5_Witness ==
  /\ Done
  /\ TokensFetchFailed /\ ~PairsFetchFailed
  /\ Len(ret.value) = 2

\* C6 (as claimed): an exception raised outside the per-pair try propagates
\* to the caller of scan_new_pairs.
C6_OuterExceptionPropagates == (Done /\ ScanAborted) => ret.state = "raised"
\* C6 (amended): such an exception is caught by the outer handler: the call
\* prints the error, makes no detail request and returns an empty list.
C6_OuterExceptionGivesEmptyResult ==
  (Done /\ ScanAborted) =>
    /\ ret = Returned(<<>>)
    /\ printed[Len(printed)] = Line("error_scanning", 0)
    /\ RequestsTo("detail") = {}
C6_Witness ==
  /\ Done
  /\ TokenListBroken
  /\ \E i \in AllPairs : VolumeAtLeastThreshold(i) /\ HasAddress(i) /\ PriceParses(i)

\* C7: a pair whose iteration raised an exception (the per-pair handler ran
\* for it) is not in the returned sequence.  Stated for the pairs whose volume is a
\* number, so that it owes nothing to what becomes of a nan volume.
C7_FailedPairNotInOutput ==
  Done =>
    \A k \in 1..Len(printed) :
      (printed[k].line = "error_pair" /\ VolumeNumber(printed[k].pair))
        => RecordsOf(ret.value, printed[k].pair) = {}

\* C9 (as claimed): a pair whose volume is missing or malformed is handled as
\* a pair of volume 0: it goes on to the detail fetch exactly when
\* 0 >= threshold.
C9_MalformedVolumeIsZero ==
  \A i \in Handled :
    (Input(i).volume24h.kind \in {"missing", "malformed"} /\ HasAddress(i))
      => (DetailRequests(i) # {} <=> 0 >= volume_threshold)
\* C9 (amended): a missing volume is handled as 0; a malformed volume raises,
\* and the pair is skipped whatever the threshold is, also when it is 0.
C9_MissingIsZeroMalformedIsSkipped ==
  \A i \in Handled :
    /\ (Input(i).volume24h.kind = "missing" /\ HasAddress(i))
         => /\ DetailRequests(i) # {} <=> 0 >= volume_threshold
            /\ \A k \in RecordsOf(new_high_volume_pairs, i) :
                 new_high_volume_pairs[k].volume_24h = Num(0)
    /\ Input(i).volume24h.kind = "malformed"
         => /\ DetailRequests(i) = {}
            /\ ~InOutput(i)
            /\ \E k \in 1..Len(printed) : printed[k] = Line("error_pair", i)
C9_Witness ==
  /\ Done
  /\ volume_threshold = 0
  /\ Len(pairs_data.items) = 2
  /\ Input(1).volume24h.kind = "malformed" /\ HasAddress(1) /\ DetailRequests(1) = {}
  /\ Input(2).volume24h.kind = "missing" /\ RecordsOf(ret.value, 2) # {}

\* The detail requests follow the order of the pairs, none made twice.
DetailOrder ==
  \A j, k \in RequestsTo("detail") : j < k => requests[j].pair < requests[k].pair
\* C10 (as claimed): in a finished scan the detail endpoint was contacted once
\* for each pair with volume >= threshold and an address, never for a pair
\* under the threshold or without address, in input order; the pairs and the
\* token-list endpoint once each.
C10_DetailOncePerQualifyingPair ==
  Done =>
    /\ \A i \in AllPairs :
         /\ (VolumeAtLeastThreshold(i) /\ HasAddress(i)) => Cardinality(DetailRequests(i)) = 1
         /\ (VolumeUnderThreshold(i) \/ ~HasAddress(i)) => DetailRequests(i) = {}
    /\ DetailOrder
    /\ Cardinality(RequestsTo("pairs")) = 1
    /\ Cardinality(RequestsTo("tokens")) = 1
\* C10 (amended): a scan that aborts before its loop makes no detail request;
\* a scan that gets to its loop contacts the detail endpoint once for each pair
\* that passes the volume filter and has an address, for that pair's address,
\* and for no other pair, in input order, whatever the answers were; the pairs
\* and the token-list endpoint are contacted once each, in that order.
C10_DetailOncePerFilteredPair ==
  Done =>
    /\ \A i \in AllPairs :
         Cardinality(DetailRequests(i)) =
           IF ~ScanAborted /\ PassesFilter(i) /\ HasAddress(i) THEN 1 ELSE 0
    /\ \A k \in RequestsTo("detail") :
         /\ requests[k].pair \in AllPairs
         /\ requests[k].address = Input(requests[k].pair).address
    /\ DetailOrder
    /\ RequestsTo("pairs") = {1}
    /\ RequestsTo("tokens") = {2}
C10_Witness ==
  /\ Done
  /\ Len(pairs_data.items) = 2
  /\ Input(1).address = Input(2).address /\ HasAddress(1)
  /\ Cardinality(RequestsTo("detail")) = 2
  /\ \E k \in DetailRequests(1) : ~requests[k].ok

\* -------------------------------------------- properties of the client
\* What holds of an answer, read off the answer alone: whether the
\* request fails on it, and the text of the error.
SendFails(answer) == answer.kind \in {"network", "http_error", "not_json"}
ErrorText(answer) ==
  CASE answer.kind = "network" -> "connection error"
    [] answer.kind = "http_error" -> "http error"
    [] answer.kind = "not_json" -> "invalid json"
    [] answer.kind = "no_result" -> "'result'"
    [] OTHER -> ""
InBroadcast == op = "broadcast_message"
BroadcastDone == InBroadcast /\ c_pc = "idle"

\* C4: broadcast_message returns one entry per chat id, the i-th for the i-th
\* chat id, success with the API's response or failure with the error text;
\* every recipient is sent to, whatever happened to the ones before; the call
\* does not raise.
C4_BroadcastIsolatesFailures ==
  InBroadcast =>
    /\ Len(results) = c_i - 1
    /\ Len(sent) = c_i - 1
    /\ c_ret.state # "raised"
    /\ \A k \in 1..Len(results) :
         /\ sent[k].chat = chat_ids[k]
         /\ results[k].chat_id = chat_ids[k]
         /\ IF SendFails(sent[k].answer)
            THEN results[k] = [chat_id |-> chat_ids[k], success |-> FALSE,
                               error |-> ErrorText(sent[k].answer)]
            ELSE results[k] = [chat_id |-> chat_ids[k], success |-> TRUE,
                               result |-> sent[k].answer.body]
    /\ c_pc = "idle" =>
         /\ c_ret.state = "returned"
         /\ c_ret.value = results
         /\ Len(results) = Len(chat_ids)
C4_Witness ==
  /\ BroadcastDone
  /\ Len(chat_ids) = 3
  /\ Len(c_ret.value) = 3
  /\ c_ret.value[1].success /\ ~c_ret.value[2].success /\ c_ret.value[3].success
  /\ c_ret.value[2].error = "connection error"

\* The calls of C8: every method but broadcast_message, once it has ended.
SingleCall == op \in {"get_updates", "send_message", "send_message_with_buttons",
                      "send_token_alert"}
CallFails == IF op = "get_updates"
             THEN SendFails(sent[1].answer) \/ sent[1].answer.kind = "no_result"
             ELSE SendFails(sent[1].answer)
\* The failures that are a requests.RequestException.
LoggedFailure(answer) ==
  \/ answer.kind \in {"network", "http_error"}
  \/ answer.kind = "not_json" /\ json_error_is_request_exception
\* C8 (as claimed): a failure of these calls reaches the caller, and a log
\* entry was written before.
C8_FailurePropagatesLogged ==
  (SingleCall /\ CallFails) => c_ret.state = "raised" /\ log # <<>>
\* C8 (amended): every failure of these calls reaches the caller (none is
\* swallowed); it is logged before exactly when it is a
\* requests.RequestException: a transport error, a rejected status, and a
\* body that is no JSON where the library raises that as a RequestException.
\* A response without 'result' in get_updates, and a body that is no JSON
\* where the library raises ValueError, reach the caller without a log entry.
C8_FailurePropagatesLoggedIfRequestException ==
  SingleCall =>
    /\ Len(sent) = 1
    /\ CallFails <=> c_ret.state = "raised"
    /\ CallFails => c_ret.exc.msg = ErrorText(sent[1].answer)
    /\ Len(log) = IF LoggedFailure(sent[1].answer) THEN 1 ELSE 0
C8_Witness ==
  /\ op = "get_updates"
  /\ sent[1].answer.kind = "no_result"
  /\ c_ret.state = "raised"
  /\ log = <<>>
====
